---- MODULE Spec2Model ----
(***************************************************************************)
(* Model of the response-normalisation and fallback-generation pipeline   *)
(* of src/main.py: clean_repeated_lines, extract_json_from_text,          *)
(* extract_model_text, generate_fallback_quiz and generate_fallback_plan. *)
(*                                                                         *)
(* Python str values are TLA+ strings, which TLC treats as sequences of   *)
(* characters (Len, SubSeq, \o).  Where a value may be of several Python  *)
(* types it is a record [tag, v]: tag names the type and v is what the    *)
(* value holds (a str its characters, a list its elements, a dict its     *)
(* <<key, value>> pairs in insertion order, a number its lexeme).         *)
(***************************************************************************)
EXTENDS Integers, Sequences, FiniteSets, TLC

VARIABLES
    pc,             \* position of the call under way
    clean_in,       \* clean_repeated_lines: the argument text
    clean_out,      \* its return value
    clean_again,    \* the return value of cleaning clean_out once more
    json_in,        \* extract_json_from_text: the argument text
    json_obj,       \* the JSON object text json_in was built around ("" if none)
    json_out,       \* its outcome (returned value or raised exception)
    result,         \* extract_model_text: the argument
    model_text,     \* its return value
    notes,          \* generate_fallback_quiz: the argument text
    num_questions,  \* generate_fallback_quiz: the argument num_questions
    questions,      \* its return value
    tasks,          \* generate_fallback_plan: the argument tasks
    plan,           \* its return value
    message,        \* chat_with_tutor: the message of the request
    response        \* its outcome (returned response or raised exception)

vars == <<pc, clean_in, clean_out, clean_again, json_in, json_obj, json_out, result,
          model_text, notes, num_questions, questions, tasks, plan, message,
          response>>

----------------------------------------------------------------------------
(* Python values and string primitives                                     *)

PyVal(tag, v) == [tag |-> tag, v |-> v]

PyNone == PyVal("None", "")

Str(s) == PyVal("str", s)

\* `not x` for x a str or None.
Falsy(x) == x.tag = "None" \/ x.v = ""

\* The characters str.strip() and str.split() treat as whitespace (those of
\* the model's alphabet).
SpaceChars == {" ", "\t", "\n", "\r"}

\* s[i:i+1], i 1-based: "" outside the string.
CharAt(s, i) == IF i \in 1..Len(s) THEN SubSeq(s, i, i) ELSE ""

\* The first index at or after i whose character is in chars (inside) or
\* not in chars (~inside); Len(s) + 1 if there is none.
FirstIndex(s, i, chars, inside) ==
    IF \E k \in i..Len(s) : (CharAt(s, k) \in chars) = inside
    THEN CHOOSE k \in i..Len(s) :
             /\ (CharAt(s, k) \in chars) = inside
             /\ \A j \in i..(k - 1) : (CharAt(s, j) \in chars) # inside
    ELSE Len(s) + 1

RECURSIVE LStripFrom(_, _)
LStripFrom(s, i) ==
    IF i > Len(s) THEN ""
    ELSE IF CharAt(s, i) \in SpaceChars THEN LStripFrom(s, i + 1)
    ELSE SubSeq(s, i, Len(s))

RECURSIVE RStripTo(_, _)
RStripTo(s, n) ==
    IF n = 0 THEN ""
    ELSE IF CharAt(s, n) \in SpaceChars THEN RStripTo(s, n - 1)
    ELSE SubSeq(s, 1, n)

RStrip(s) == RStripTo(s, Len(s))

Strip(s) == LStripFrom(RStrip(s), 1)

\* s[i:].startswith(p), i 1-based.
StartsWithAt(s, i, p) ==
    /\ i + Len(p) - 1 <= Len(s)
    /\ SubSeq(s, i, i + Len(p) - 1) = p

\* The 1-based index of the first occurrence of p in s at or after i; 0 if none.
FindFrom(s, p, i) ==
    LET at(k) == SubSeq(s, k, k + Len(p) - 1) = p
        range == i..(Len(s) - Len(p) + 1)
    IN  IF \E k \in range : at(k)
        THEN CHOOSE k \in range : at(k) /\ \A j \in i..(k - 1) : ~at(j)
        ELSE 0

\* `p in s` for strings.
Contains(s, p) == FindFrom(s, p, 1) # 0

RECURSIVE ReplaceFrom(_, _, _, _)
ReplaceFrom(s, old, new, i) ==
    LET k == FindFrom(s, old, i) IN
    IF k = 0 THEN SubSeq(s, i, Len(s))
    ELSE SubSeq(s, i, k - 1) \o new \o ReplaceFrom(s, old, new, k + Len(old))

\* s.replace(old, new), old non-empty: every non-overlapping occurrence,
\* left to right, matched case-sensitively.
Replace(s, old, new) == ReplaceFrom(s, old, new, 1)

RECURSIVE SplitFrom(_, _, _)
SplitFrom(s, sep, i) ==
    LET k == FindFrom(s, sep, i) IN
    IF k = 0 THEN <<SubSeq(s, i, Len(s))>>
    ELSE <<SubSeq(s, i, k - 1)>> \o SplitFrom(s, sep, k + Len(sep))

\* s.split(sep), sep non-empty.
Split(s, sep) == SplitFrom(s, sep, 1)

RECURSIVE JoinFrom(_, _, _)
JoinFrom(sep, xs, i) ==
    IF i > Len(xs) THEN ""
    ELSE IF i = Len(xs) THEN xs[i]
    ELSE xs[i] \o sep \o JoinFrom(sep, xs, i + 1)

\* sep.join(xs)
Join(sep, xs) == JoinFrom(sep, xs, 1)

RECURSIVE Texts(_, _)
\* Every concatenation of at most n pieces of P.
Texts(P, n) ==
    IF n = 0 THEN {""}
    ELSE LET T == Texts(P, n - 1) IN T \cup {t \o p : t \in T, p \in P}

RECURSIVE Rep(_, _)
\* c * n
Rep(c, n) ==
    IF n = 0 THEN ""
    ELSE LET h == Rep(c, n \div 2) IN
         IF n % 2 = 0 THEN h \o h ELSE h \o h \o c

----------------------------------------------------------------------------
(* clean_repeated_lines                                                    *)

\* The alternatives of the pattern r"\[/?INST\]|<s>|</s>".
Markers == <<"[INST]", "[/INST]", "<s>", "</s>">>

\* Whether one of the pattern's alternatives matches at position i of s.
MarkerAt(s, i) == \E k \in 1..Len(Markers) : StartsWithAt(s, i, Markers[k])

\* The length of the match at position i (the alternatives are tried in order).
MarkerLenAt(s, i) ==
    Len(Markers[CHOOSE k \in 1..Len(Markers) :
                  /\ StartsWithAt(s, i, Markers[k])
                  /\ \A j \in 1..(k - 1) : ~StartsWithAt(s, i, Markers[j])])

RECURSIVE RemoveMarkersFrom(_, _)
RemoveMarkersFrom(s, i) ==
    IF \E k \in i..Len(s) : MarkerAt(s, k)
    THEN LET k == CHOOSE k \in i..Len(s) :
                     MarkerAt(s, k) /\ \A j \in i..(k - 1) : ~MarkerAt(s, j)
         IN  SubSeq(s, i, k - 1) \o RemoveMarkersFrom(s, k + MarkerLenAt(s, k))
    ELSE SubSeq(s, i, Len(s))

\* re.sub(r"\[/?INST\]|<s>|</s>", "", line): one left-to-right pass over the
\* line; what the removal of a match brings together is not scanned again.
RemoveMarkers(line) == RemoveMarkersFrom(line, 1)

ShortLineLimit == 120

\* lines = [l.rstrip() for l in text.replace('\r\n', '\n').split('\n')]
CleanLines(text) ==
    LET raw == Split(Replace(text, "\r\n", "\n"), "\n")
    IN  [i \in 1..Len(raw) |-> RStrip(raw[i])]

RECURSIVE CleanFirstPass(_, _, _, _, _)
\* The first loop: prev is the previous raw line (PyNone before the first).
CleanFirstPass(lines, i, cleaned, prev, repeat_count) ==
    IF i > Len(lines) THEN cleaned
    ELSE
      LET line == lines[i] IN
      IF Strip(line) = ""
      THEN CleanFirstPass(lines, i + 1,
               IF prev # PyNone /\ Len(cleaned) > 0
                  /\ Strip(cleaned[Len(cleaned)]) # ""
               THEN Append(cleaned, "") ELSE cleaned,
               Str(""), repeat_count)
      ELSE
        LET repeated == (Str(line) = prev)
            count == IF repeated THEN repeat_count + 1 ELSE 0
        IN  IF repeated /\ count > 0
            THEN CleanFirstPass(lines, i + 1, cleaned, prev, count)
            ELSE
              LET cleaned_line == Strip(RemoveMarkers(line)) IN
              CleanFirstPass(lines, i + 1,
                  IF cleaned_line # "" THEN Append(cleaned, cleaned_line)
                  ELSE cleaned,
                  Str(line), count)

RECURSIVE CleanSecondPass(_, _, _)
\* The second loop: drops a line equal to the last one kept when it is short.
CleanSecondPass(cleaned, i, final_lines) ==
    IF i > Len(cleaned) THEN final_lines
    ELSE
      LET l == cleaned[i] IN
      IF /\ Len(final_lines) > 0
         /\ final_lines[Len(final_lines)] = l
         /\ Len(l) < ShortLineLimit
      THEN CleanSecondPass(cleaned, i + 1, final_lines)
      ELSE CleanSecondPass(cleaned, i + 1, Append(final_lines, l))

\* clean_repeated_lines(text), text a str or None.
clean_repeated_lines(text) ==
    IF Falsy(text) THEN text
    ELSE
      LET cleaned == CleanFirstPass(CleanLines(text.v), 1, <<>>, PyNone, 0)
          final_lines == CleanSecondPass(cleaned, 1, <<>>)
      IN  Str(Strip(Join("\n", final_lines)))

----------------------------------------------------------------------------
(* json.loads                                                              *)
(*                                                                         *)
(* The decoded value is a Python value: an object a dict, an array a list, *)
(* null None.  The texts of the model carry no backslash, so a string      *)
(* token holds no escape sequence.                                         *)

Fail == [ok |-> FALSE, val |-> PyNone, next |-> 0]

Ok(val, next) == [ok |-> TRUE, val |-> val, next |-> next]

DigitChars == {"0", "1", "2", "3", "4", "5", "6", "7", "8", "9"}

SkipWs(s, i) ==
    FirstIndex(s, i, {" ", "\t", "\n", "\r"}, FALSE)

\* d[k] = v on the pairs of a dict: an existing key keeps its place.
DictSet(pairs, k, v) ==
    IF \E i \in 1..Len(pairs) : pairs[i][1] = k
    THEN [i \in 1..Len(pairs) |->
             IF pairs[i][1] = k THEN <<k, v>> ELSE pairs[i]]
    ELSE Append(pairs, <<k, v>>)

\* The string token opening at s[i] = '"' and closing at the quote s[k]
\* (k = 0: unterminated): it may hold no control character.
ClosedString(s, i, k) ==
    IF k = 0 \/ \E c \in {"\n", "\r", "\t"} : Contains(SubSeq(s, i + 1, k - 1), c)
    THEN Fail
    ELSE Ok(PyVal("str", SubSeq(s, i + 1, k - 1)), k + 1)

\* py_scanstring: the token closes at the next quote.
ParseString(s, i) == ClosedString(s, i, FindFrom(s, "\"", i + 1))

\* NUMBER_RE = (-?(?:0|[1-9]\d*))(\.\d+)?([eE][-+]?\d+)?, group by group:
\* where the digits start, and the end (exclusive) of each group.
IntStart(s, i) == IF CharAt(s, i) = "-" THEN i + 1 ELSE i

IntEnd(s, j) ==
    IF CharAt(s, j) = "0" THEN j + 1 ELSE FirstIndex(s, j, DigitChars, FALSE)

FracEnd(s, n) ==
    IF CharAt(s, n) = "." /\ CharAt(s, n + 1) \in DigitChars
    THEN FirstIndex(s, n + 1, DigitChars, FALSE) ELSE n

ExpDigits(s, n) == IF CharAt(s, n + 1) \in {"+", "-"} THEN n + 2 ELSE n + 1

ExpEnd(s, n) ==
    IF CharAt(s, n) \in {"e", "E"} /\ CharAt(s, ExpDigits(s, n)) \in DigitChars
    THEN FirstIndex(s, ExpDigits(s, n), DigitChars, FALSE) ELSE n

\* The end (exclusive) of the longest match of NUMBER_RE at i, or i when it
\* does not match.
NumberEnd(s, i) ==
    IF CharAt(s, IntStart(s, i)) \in DigitChars
    THEN ExpEnd(s, FracEnd(s, IntEnd(s, IntStart(s, i))))
    ELSE i

\* A number token is a float when it has a fraction or an exponent, an int
\* otherwise.
Number(lexeme) ==
    IF \E c \in {".", "e", "E"} : Contains(lexeme, c)
    THEN PyVal("float", lexeme) ELSE PyVal("int", lexeme)

\* The end of scan_once, n the end of the number match at i: a number, one
\* of the constants NaN, Infinity, -Infinity, or StopIteration.
ScanNumber(s, i, n) ==
    IF n > i THEN Ok(Number(SubSeq(s, i, n - 1)), n)
    ELSE IF StartsWithAt(s, i, "NaN") THEN Ok(PyVal("float", "NaN"), i + 3)
    ELSE IF StartsWithAt(s, i, "Infinity")
         THEN Ok(PyVal("float", "Infinity"), i + 8)
    ELSE IF StartsWithAt(s, i, "-Infinity")
         THEN Ok(PyVal("float", "-Infinity"), i + 9)
    ELSE Fail

RECURSIVE ParseValue(_, _), ParseMembers(_, _, _), MemberAfterKey(_, _, _),
          MemberAfterColon(_, _, _, _), MemberAfterValue(_, _, _, _),
          MemberEnd(_, _, _), ParseElements(_, _, _), ElementAfterValue(_, _, _),
          ElementEnd(_, _, _)

\* The scanner's scan_once: the value starting at s[i].
ParseValue(s, i) ==
    IF CharAt(s, i) = "\"" THEN ParseString(s, i)
    ELSE IF CharAt(s, i) = "{" THEN ParseMembers(s, SkipWs(s, i + 1), <<>>)
    ELSE IF CharAt(s, i) = "[" THEN ParseElements(s, SkipWs(s, i + 1), <<>>)
    ELSE IF StartsWithAt(s, i, "null") THEN Ok(PyNone, i + 4)
    ELSE IF StartsWithAt(s, i, "true") THEN Ok(PyVal("bool", "True"), i + 4)
    ELSE IF StartsWithAt(s, i, "false") THEN Ok(PyVal("bool", "False"), i + 5)
    ELSE ScanNumber(s, i, NumberEnd(s, i))

\* JSONObject, at s[j] after '{' or ',' and whitespace: '}' closes an object
\* that has no pair yet; otherwise a key is expected.
ParseMembers(s, j, pairs) ==
    IF Len(pairs) = 0 /\ CharAt(s, j) = "}" THEN Ok(PyVal("dict", <<>>), j + 1)
    ELSE IF CharAt(s, j) # "\"" THEN Fail
    ELSE MemberAfterKey(s, ParseString(s, j), pairs)

MemberAfterKey(s, key, pairs) ==
    IF ~key.ok THEN Fail
    ELSE MemberAfterColon(s, key.val.v, SkipWs(s, key.next), pairs)

MemberAfterColon(s, k, colon, pairs) ==
    IF CharAt(s, colon) # ":" THEN Fail
    ELSE MemberAfterValue(s, k, ParseValue(s, SkipWs(s, colon + 1)), pairs)

MemberAfterValue(s, k, value, pairs) ==
    IF ~value.ok THEN Fail
    ELSE MemberEnd(s, SkipWs(s, value.next), DictSet(pairs, k, value.val))

MemberEnd(s, end, pairs) ==
    IF CharAt(s, end) = "}" THEN Ok(PyVal("dict", pairs), end + 1)
    ELSE IF CharAt(s, end) = "," THEN ParseMembers(s, SkipWs(s, end + 1), pairs)
    ELSE Fail

\* JSONArray, at s[j] after '[' or ',' and whitespace: ']' closes an array
\* that has no element yet; otherwise a value is expected.
ParseElements(s, j, values) ==
    IF Len(values) = 0 /\ CharAt(s, j) = "]" THEN Ok(PyVal("list", <<>>), j + 1)
    ELSE ElementAfterValue(s, ParseValue(s, j), values)

ElementAfterValue(s, value, values) ==
    IF ~value.ok THEN Fail
    ELSE ElementEnd(s, SkipWs(s, value.next), Append(values, value.val))

ElementEnd(s, end, values) ==
    IF CharAt(s, end) = "]" THEN Ok(PyVal("list", values), end + 1)
    ELSE IF CharAt(s, end) = "," THEN ParseElements(s, SkipWs(s, end + 1), values)
    ELSE Fail

\* The value r decoded from the start of s is the value of s when only
\* whitespace follows it ("Extra data" otherwise).
WholeText(s, r) ==
    IF r.ok /\ SkipWs(s, r.next) = Len(s) + 1 THEN r ELSE Fail

\* json.loads(s) for a str s: one value, with only whitespace around it.
\* ok = FALSE stands for json.JSONDecodeError.
JsonLoads(s) == WholeText(s, ParseValue(s, SkipWs(s, 1)))

----------------------------------------------------------------------------
(* extract_json_from_text                                                  *)

BraceChars == {"{", "}"}

QuestionsKey == "\"questions\""

\* The largest element of a non-empty set of integers.
Max(S) == CHOOSE x \in S : \A y \in S : y <= x

\* e when s[e] is a closing brace, 0 otherwise.
ClosingBraceAt(s, e) == IF CharAt(s, e) = "}" THEN e ELSE 0

\* With the ']' of the pattern at position close (0: there is none): the
\* first brace after it must be the closing '}'.
BraceAfterBracket(s, close) ==
    IF close = 0 THEN 0
    ELSE ClosingBraceAt(s, FirstIndex(s, close + 1, BraceChars, TRUE))

\* With the '[' of the pattern at position open: the ']' is the first one
\* after it ([^\]]* runs over braces too).  The position of the '}' that
\* ends the match, or 0.
BracketTailEnd(s, open) == BraceAfterBracket(s, FindFrom(s, "]", open + 1))

\* The places of a '[' after the key at q and before the brace at b from
\* which the rest of the pattern matches.
Opens(s, q, b) ==
    {o \in (q + Len(QuestionsKey))..(b - 1) :
        CharAt(s, o) = "[" /\ BracketTailEnd(s, o) # 0}

\* The places of the key "questions" after i and before the brace at b from
\* which the rest of the pattern matches.
Keys(s, i, b) ==
    {q \in (i + 1)..(b - 1) :
        StartsWithAt(s, q, QuestionsKey) /\ Opens(s, q, b) # {}}

\* The match at i, b the first brace after i: the key "questions" and the
\* '[' lie before b.  The quantifiers are greedy, so the matcher tries the
\* last occurrence of the key first and, for a key, the last '[' first.
QuestionsMatchBefore(s, i, b) ==
    IF CharAt(s, i) = "{" /\ Keys(s, i, b) # {}
    THEN BracketTailEnd(s, Max(Opens(s, Max(Keys(s, i, b)), b)))
    ELSE 0

\* The end of the match at i of
\*   \{[^{}]*"questions"[^{}]*\[[^\]]*\][^{}]*\}
\* or 0 when the pattern does not match at i.
QuestionsMatchEnd(s, i) ==
    QuestionsMatchBefore(s, i, FirstIndex(s, i + 1, BraceChars, TRUE))

\* The end of the match at i of \{.*?\} (DOTALL): from a '{' to the first
\* '}' after it; 0 when there is none.
BraceMatchEnd(s, i) ==
    IF CharAt(s, i) = "{" THEN FindFrom(s, "}", i + 1) ELSE 0

\* json_patterns, by position in the list.
PatternMatchEnd(pattern, s, i) ==
    IF pattern = 1 THEN QuestionsMatchEnd(s, i) ELSE BraceMatchEnd(s, i)

NumPatterns == 2

RECURSIVE FindAllFrom(_, _, _), FindAllAt(_, _, _), FindAllAfter(_, _, _, _)

\* re.findall(pattern, s, re.DOTALL) from position i on: the non-overlapping
\* matches, left to right.  Every match starts at a '{'.
FindAllFrom(pattern, s, i) == FindAllAt(pattern, s, FindFrom(s, "{", i))

\* k: the next '{' (0: none).
FindAllAt(pattern, s, k) ==
    IF k = 0 THEN <<>>
    ELSE FindAllAfter(pattern, s, k, PatternMatchEnd(pattern, s, k))

\* e: the end of the match at k (0: no match at k).
FindAllAfter(pattern, s, k, e) ==
    IF e = 0 THEN FindAllFrom(pattern, s, k + 1)
    ELSE <<SubSeq(s, k, e)>> \o FindAllFrom(pattern, s, e + 1)

FindAll(pattern, s) == FindAllFrom(pattern, s, 1)

\* What a call ends in: a returned value, or an exception that leaves it.
Return(v) == [kind |-> "return", val |-> v]

Raise(e) == [kind |-> "raise", val |-> PyVal("exception", e)]

RECURSIVE TryMatches(_, _, _), TryMatch(_, _, _, _)

\* The two nested loops: the first match, pattern by pattern, that
\* json.loads accepts is returned; None when there is none.
TryMatches(s, pattern, matches) ==
    IF Len(matches) = 0
    THEN IF pattern = NumPatterns THEN Return(PyNone)
         ELSE TryMatches(s, pattern + 1, FindAll(pattern + 1, s))
    ELSE TryMatch(s, pattern, matches, JsonLoads(Head(matches)))

\* r: what json.loads makes of the first of the matches.
TryMatch(s, pattern, matches, r) ==
    IF r.ok THEN Return(r.val) ELSE TryMatches(s, pattern, Tail(matches))

\* After the direct parse of the text s.
ExtractAfterDirect(s, direct) ==
    IF direct.ok THEN Return(direct.val)
    ELSE TryMatches(s, 1, FindAll(1, s))

\* extract_json_from_text(text), text a str or None.  json.loads(None)
\* raises TypeError inside the try; re.findall(pattern, None) raises it
\* outside of any try.
extract_json_from_text(text) ==
    IF text.tag = "None" THEN Raise("TypeError")
    ELSE ExtractAfterDirect(text.v, JsonLoads(text.v))

----------------------------------------------------------------------------
(* extract_model_text                                                      *)

\* The keys tried on the first element of a list, in order.
ListKeys == <<"generated_text", "text", "summary_text", "output", "content">>

\* The keys tried on a dict, in order.
DictKeys == ListKeys \o <<"prediction">>

\* key in d
DictHas(d, key) == \E i \in 1..Len(d.v) : d.v[i][1] = key

\* d[key], for a key of d
DictGet(d, key) == d.v[CHOOSE i \in 1..Len(d.v) : d.v[i][1] = key][2]

\* isinstance(x, str) and x.strip()
IsText(x) == x.tag = "str" /\ Strip(x.v) # ""

\* key in d and isinstance(d[key], str) and d[key].strip()
HasText(d, key) == DictHas(d, key) /\ IsText(DictGet(d, key))

\* The place in keys of the first key under which d holds text; 0 if none.
FirstTextKey(d, keys) ==
    IF \E j \in 1..Len(keys) : HasText(d, keys[j])
    THEN CHOOSE j \in 1..Len(keys) :
             HasText(d, keys[j]) /\ \A k \in 1..(j - 1) : ~HasText(d, keys[k])
    ELSE 0

\* [v for v in first.values() if isinstance(v, str) and v.strip()]
StringValues(d) ==
    LET texts == SelectSeq(d.v, LAMBDA pair : IsText(pair[2]))
    IN  [i \in 1..Len(texts) |-> texts[i][2].v]

\* The branch for a list whose first element is the dict first; j is the
\* place of the first key with text.  "" stands for falling through to the
\* final return "".
ListDictText(first, j) ==
    IF j # 0 THEN Strip(DictGet(first, ListKeys[j]).v)
    ELSE IF Len(StringValues(first)) > 0
         THEN Strip(Join("\n", StringValues(first)))
    ELSE ""

\* The branch for a non-empty list.
ListText(first) ==
    IF first.tag = "dict" THEN ListDictText(first, FirstTextKey(first, ListKeys))
    ELSE IF IsText(first) THEN Strip(first.v)
    ELSE ""

\* A dict whose error message is taken for its text.
DictTextJoiningStrings(d, j) ==
    IF j # 0 THEN Strip(DictGet(d, DictKeys[j]).v)
    ELSE IF Len(StringValues(d)) > 0 THEN Strip(Join("\n", StringValues(d)))
    ELSE ""

\* The branch for a dict; j is the place of the first key with text.  With
\* no such key the function returns "", through the 'error' test or by
\* falling through to the final return.
DictText(d, j) ==
    IF j # 0 THEN Strip(DictGet(d, DictKeys[j]).v)
    ELSE IF DictHas(d, "error") THEN ""
    ELSE ""

\* extract_model_text(result).  Nothing in the try block raises on the
\* values of the model, and an exception would end in the same return "".
extract_model_text(res) ==
    IF res.tag = "list" /\ Len(res.v) > 0 THEN ListText(res.v[1])
    ELSE IF res.tag = "dict" THEN DictText(res, FirstTextKey(res, DictKeys))
    ELSE IF IsText(res) THEN Strip(res.v)
    ELSE ""

----------------------------------------------------------------------------
(* generate_fallback_quiz                                                  *)

UpperAlpha == "ABCDEFGHIJKLMNOPQRSTUVWXYZ"

LowerAlpha == "abcdefghijklmnopqrstuvwxyz"

\* A lower-case letter whose title case is two letters.
SharpS == "ß"

\* The characters \w matches, of those the model's texts are written in.
IsWordChar(c) ==
    \/ Contains(UpperAlpha, c) \/ Contains(LowerAlpha, c)
    \/ c \in DigitChars \/ c = "_" \/ c = SharpS

LowerChar(c) ==
    IF Contains(UpperAlpha, c) THEN CharAt(LowerAlpha, FindFrom(UpperAlpha, c, 1))
    ELSE c

\* The title case of a character, as str.capitalize() gives its first one.
TitleChar(c) ==
    IF Contains(LowerAlpha, c) THEN CharAt(UpperAlpha, FindFrom(LowerAlpha, c, 1))
    ELSE IF c = SharpS THEN "Ss"
    ELSE c

RECURSIVE Lower(_)
\* s.lower(), by halves.
Lower(s) ==
    IF Len(s) = 0 THEN ""
    ELSE IF Len(s) = 1 THEN LowerChar(s)
    ELSE Lower(SubSeq(s, 1, Len(s) \div 2))
            \o Lower(SubSeq(s, Len(s) \div 2 + 1, Len(s)))

RECURSIVE OnlyWordChars(_)
\* re.sub(r'[^\w]', '', word), by halves.
OnlyWordChars(s) ==
    IF Len(s) = 0 THEN ""
    ELSE IF Len(s) = 1 THEN (IF IsWordChar(s) THEN s ELSE "")
    ELSE OnlyWordChars(SubSeq(s, 1, Len(s) \div 2))
            \o OnlyWordChars(SubSeq(s, Len(s) \div 2 + 1, Len(s)))

\* s.capitalize()
Capitalize(s) == TitleChar(CharAt(s, 1)) \o Lower(SubSeq(s, 2, Len(s)))

RECURSIVE WordsFrom(_, _), WordsAt(_, _), WordsTo(_, _, _)

\* s.split() from position i on: the runs of non-whitespace.
WordsFrom(s, i) == WordsAt(s, FirstIndex(s, i, SpaceChars, FALSE))

WordsAt(s, start) ==
    IF start > Len(s) THEN <<>>
    ELSE WordsTo(s, start, FirstIndex(s, start, SpaceChars, TRUE))

WordsTo(s, start, end) == <<SubSeq(s, start, end - 1)>> \o WordsFrom(s, end)

Min2(a, b) == IF a < b THEN a ELSE b

\* s[:n]
Prefix(s, n) == SubSeq(s, 1, Min2(n, Len(s)))

MinSentenceLen == 20

MinTermLen == 4

MaxKeyTerms == 10

NumOptions == 4

BlankWidth == 100

GenericWidth == 80

\* sentences = [s.strip() for s in text.split('.') if len(s.strip()) > 20]
Sentences(text) ==
    LET parts == Split(text, ".")
    IN  SelectSeq([i \in 1..Len(parts) |-> Strip(parts[i])],
                  LAMBDA x : Len(x) > MinSentenceLen)

\* word_freq.get(clean, 0)
FreqGet(word_freq, clean) ==
    IF \E i \in 1..Len(word_freq) : word_freq[i][1] = clean
    THEN word_freq[CHOOSE i \in 1..Len(word_freq) : word_freq[i][1] = clean][2]
    ELSE 0

\* One step of the counting loop; clean is the word without its non-word
\* characters.
CountWord(word_freq, clean) ==
    IF Len(clean) > MinTermLen
    THEN DictSet(word_freq, clean, FreqGet(word_freq, clean) + 1)
    ELSE word_freq

RECURSIVE CountWords(_, _, _)
\* The counting loop over words = text.lower().split().
CountWords(words, i, word_freq) ==
    IF i > Len(words) THEN word_freq
    ELSE CountWords(words, i + 1,
                    CountWord(word_freq, OnlyWordChars(words[i])))

\* Whether item k comes before item j in sorted(items, key=count,
\* reverse=True): a higher count first, equal counts in their first order.
SortsBefore(items, k, j) ==
    \/ items[k][2] > items[j][2]
    \/ items[k][2] = items[j][2] /\ k < j

SortedByCount(items) ==
    [r \in 1..Len(items) |->
        items[CHOOSE j \in 1..Len(items) :
                 Cardinality({k \in 1..Len(items) : SortsBefore(items, k, j)})
                     = r - 1]]

\* [term[0] for term in sorted_items[:10]]
TopTerms(sorted_items) ==
    [r \in 1..Min2(MaxKeyTerms, Len(sorted_items)) |-> sorted_items[r][1]]

\* key_terms
KeyTerms(text) ==
    TopTerms(SortedByCount(CountWords(WordsFrom(Lower(text), 1), 1, <<>>)))

\* The place in key_terms of the first term that occurs in the lowered
\* sentence; 0 if none does.
FirstTermIn(key_terms, lowered) ==
    IF \E j \in 1..Len(key_terms) : Contains(lowered, key_terms[j])
    THEN CHOOSE j \in 1..Len(key_terms) :
             /\ Contains(lowered, key_terms[j])
             /\ \A k \in 1..(j - 1) : ~Contains(lowered, key_terms[k])
    ELSE 0

\* The distractor loop: the first three key terms other than the term,
\* capitalized.
Distractors(key_terms, term) ==
    LET others == SelectSeq(key_terms, LAMBDA t : t # term)
    IN  [i \in 1..Min2(NumOptions - 1, Len(others)) |-> Capitalize(others[i])]

RECURSIVE PadOptions(_)
\* while len(options) < 4: options.append(f"Option {chr(65 + len(options))}")
PadOptions(options) ==
    IF Len(options) < NumOptions
    THEN PadOptions(Append(options,
                           "Option " \o CharAt(UpperAlpha, Len(options) + 1)))
    ELSE options

Options(key_terms, term) ==
    PadOptions(<<Capitalize(term)>> \o Distractors(key_terms, term))

BlankMarker == "_____"

\* The fill-in-the-blank question for question number id.
BlankQuestion(id, sentence, term, options) ==
    [id |-> id,
     type |-> "multiple_choice",
     question |-> "Complete: "
                    \o Prefix(Replace(sentence, term, BlankMarker), BlankWidth)
                    \o "...",
     options |-> options,
     correct_answer |-> options[1],
     explanation |-> "'" \o options[1] \o "' is a key concept in your notes."]

GenericOptions == <<"Main concept", "Supporting detail", "Example", "Summary">>

\* The question for a sentence none of the key terms occurs in.
GenericQuestion(id, sentence) ==
    [id |-> id,
     type |-> "multiple_choice",
     question |-> "According to your notes: " \o Prefix(sentence, GenericWidth)
                    \o "... What is the main point?",
     options |-> GenericOptions,
     correct_answer |-> "Main concept",
     explanation |-> "This represents the key idea discussed."]

\* The body of the loop; j is the place of the term found in the sentence.
QuestionFor(id, sentence, key_terms, j) ==
    IF j # 0
    THEN BlankQuestion(id, sentence, key_terms[j],
                       Options(key_terms, key_terms[j]))
    ELSE GenericQuestion(id, sentence)

\* len(range(n))
RangeLen(n) == IF n > 0 THEN n ELSE 0

\* The loop for i in range(count), id = i + 1.
QuestionsOf(sentences, key_terms, count) ==
    [id \in 1..count |->
        QuestionFor(id, sentences[id], key_terms,
                    FirstTermIn(key_terms, Lower(sentences[id])))]

\* generate_fallback_quiz(text, num_questions)
generate_fallback_quiz(text, n) ==
    QuestionsOf(Sentences(text), KeyTerms(text),
                RangeLen(Min2(n, Len(Sentences(text)))))

----------------------------------------------------------------------------
(* generate_fallback_plan                                                  *)

\* t.get(key, default), for a task t: a function from the keys it has.
Get(t, key, default) == IF key \in DOMAIN t THEN t[key] ELSE default

CompletedProgress == 80

\* completed = sum(1 for t in tasks if t.get('progress', 0) >= 80)
Completed(task_list) ==
    Cardinality({i \in 1..Len(task_list) :
                    Get(task_list[i], "progress", 0) >= CompletedProgress})

LowTierTenths == 3

HighTierTenths == 7

\* completion_rate <= tenths / 10
RateAtMost(completed, total, tenths) ==
    IF total > 0 THEN 10 * completed <= tenths * total ELSE 0 <= tenths

\* completion_rate < tenths / 10, where completion_rate is completed / total
\* if total > 0 else 0.  The quotient and the literal are both the double
\* nearest to the exact fraction, so they compare as the fractions do.
RateBelow(completed, total, tenths) ==
    IF total > 0 THEN 10 * completed < tenths * total ELSE 0 < tenths

LowRecommendations ==
    <<"Focus on completing high-priority tasks first",
      "Break large tasks into smaller, manageable chunks",
      "Use the Pomodoro technique: 25 min study + 5 min break",
      "Set specific daily goals to build momentum">>

MidRecommendations ==
    <<"Great progress! Maintain your study rhythm",
      "Review completed material to reinforce learning",
      "Take practice quizzes to test understanding",
      "Identify and strengthen weak areas">>

HighRecommendations ==
    <<"Excellent work! You're on track",
      "Focus on final review and practice tests",
      "Teach concepts to others for deeper understanding",
      "Plan your exam strategy and time management">>

Recommendations(completed, total) ==
    IF RateBelow(completed, total, LowTierTenths) THEN LowRecommendations
    ELSE IF RateBelow(completed, total, HighTierTenths) THEN MidRecommendations
    ELSE HighRecommendations

\* high_priority = [t for t in tasks if t.get('priority') == 'High']
HighPriority(task_list) ==
    SelectSeq(task_list,
              LAMBDA t : "priority" \in DOMAIN t /\ t["priority"] = "High")

FixedSchedule ==
    [monday |-> <<"Morning: Review high-priority material",
                  "Afternoon: Practice problems and exercises">>,
     tuesday |-> <<"Morning: Focus on challenging topics",
                   "Afternoon: Take practice quiz">>,
     wednesday |-> <<"Morning: Work on pending assignments",
                     "Afternoon: Group study or review session">>,
     thursday |-> <<"Morning: Review completed topics",
                    "Afternoon: Prepare for upcoming deadlines">>,
     friday |-> <<"Morning: Weekly review and consolidation",
                  "Afternoon: Light study and plan next week">>]

\* The last of the high-priority tasks.
LastFocusTask(high_priority) == high_priority[Len(high_priority)]

\* high_priority[0]
FocusTask(high_priority) == high_priority[1]

\* The schedule, with schedule["monday"][0] overwritten if high_priority.
Schedule(high_priority) ==
    IF Len(high_priority) > 0
    THEN [FixedSchedule EXCEPT
            !.monday[1] = "Focus on: "
                \o Get(FocusTask(high_priority), "title", "priority task")]
    ELSE FixedSchedule

\* generate_fallback_plan(tasks, progress): the fields of the
\* StudyPlanResponse.  progress is not read.
generate_fallback_plan(task_list, progress) ==
    [recommendations |-> Recommendations(Completed(task_list), Len(task_list)),
     schedule |-> Schedule(HighPriority(task_list))]

----------------------------------------------------------------------------
(* query_ollama, get_fallback_response, chat_with_tutor                    *)

\* query_ollama(prompt): outcome is what ollama.generate and the reading of
\* response['response'] come to, a returned text or a raised exception.
query_ollama(outcome) ==
    IF outcome.kind = "raise" THEN PyNone ELSE Str(Strip(outcome.val.v))

\* The keyword lists, in the order they are tried, each with its reply.
FallbackRules ==
    <<<<{"math", "calculate", "equation", "formula"},
        "For math problems, break them down step by step. First identify what you're solving for, list the given values, then apply the appropriate formula. Would you like help with a specific problem?">>,
      <<{"history", "date", "event", "war"},
        "When studying history, focus on causes and effects. Create timelines to visualize the sequence of events. Understanding 'why' things happened is more important than just memorizing dates. What specific period are you studying?">>,
      <<{"science", "physics", "chemistry", "biology"},
        "Science concepts often build on each other. Make sure you understand the fundamentals first. Use diagrams and practice problems to reinforce your understanding. What specific concept are you working on?">>,
      <<{"study", "learn", "remember", "memorize"},
        "Effective study techniques include: 1) Spaced repetition - review material over increasing intervals, 2) Active recall - test yourself without looking at notes, 3) Teach others - explaining concepts helps solidify understanding. Use the Pomodoro technique: 25 minutes focused study, 5 minute break.">>,
      <<{"exam", "test", "quiz"},
        "For exam prep: 1) Review past papers and practice questions, 2) Focus on areas where you're weakest, 3) Get enough sleep before the exam, 4) During the test, read questions carefully and manage your time. Start with questions you know well to build confidence.">>>>

\* The reply of the first rule one of whose words is in msg_lower, or the
\* reply of the else branch.
FallbackFor(msg_lower) ==
    IF \E r \in 1..Len(FallbackRules) :
          \E word \in FallbackRules[r][1] : Contains(msg_lower, word)
    THEN FallbackRules[
             CHOOSE r \in 1..Len(FallbackRules) :
                /\ \E word \in FallbackRules[r][1] : Contains(msg_lower, word)
                /\ \A q \in 1..(r - 1) :
                      \A word \in FallbackRules[q][1] : ~Contains(msg_lower, word)
         ][2]
    ELSE "I'm here to help with your studies! You can ask me about specific subjects (math, science, history), study techniques, exam preparation, or any concept you're learning. What would you like to know more about?"

\* get_fallback_response(message)
get_fallback_response(msg) == FallbackFor(Lower(msg))

\* The try block from the cleaning on; cleaned is the cleaned text.  With
\* nothing to return it reads the local fallback, which no statement has
\* assigned yet.
ChatTry(cleaned) ==
    IF ~Falsy(cleaned) THEN Return(cleaned) ELSE Raise("UnboundLocalError")

\* An except clause that lets the exception pass.
ChatExceptPassing(msg, tried) == tried

\* The except Exception clause, entered if the try block raised.
ChatExcept(msg, tried) ==
    IF tried.kind = "raise" THEN Return(Str(get_fallback_response(msg)))
    ELSE tried

\* chat_with_tutor(request): the response of the ChatResponse returned, or
\* the exception raised.
chat_with_tutor(msg, outcome) ==
    ChatExcept(msg, ChatTry(clean_repeated_lines(query_ollama(outcome))))

----------------------------------------------------------------------------
(* generate_quiz                                                           *)

NotesLimit == 1500

ErrorNotesLimit == 500

\* bool(x).  A number is zero when the digits before its exponent are all
\* zeros (the exponents of the model's texts do not underflow).
Truthy(x) ==
    IF x.tag = "None" THEN FALSE
    ELSE IF x.tag = "str" THEN x.v # ""
    ELSE IF x.tag \in {"dict", "list"} THEN Len(x.v) > 0
    ELSE IF x.tag = "bool" THEN x.v = "True"
    ELSE \/ x.v \in {"NaN", "Infinity", "-Infinity"}
         \/ FirstIndex(x.v, 1, {"1", "2", "3", "4", "5", "6", "7", "8", "9"}, TRUE)
              < FirstIndex(x.v, 1, {"e", "E"}, TRUE)

\* The try block after the extraction; extracted is the outcome of
\* extract_json_from_text.  The test "questions" in quiz_data raises for a
\* number or a bool, quiz_data["questions"] for a list or a str, the slice
\* for a value that is no sequence, and QuizResponse for questions that are
\* not a list of dicts.
QuizTry(notes_text, n, extracted) ==
    IF extracted.kind = "raise" THEN extracted
    ELSE LET quiz_data == extracted.val IN
         IF ~Truthy(quiz_data)
         THEN Return(generate_fallback_quiz(notes_text, n))
         ELSE IF quiz_data.tag \in {"int", "float", "bool"} THEN Raise("TypeError")
         ELSE IF quiz_data.tag = "str"
              THEN IF Contains(quiz_data.v, "questions") THEN Raise("TypeError")
                   ELSE Return(generate_fallback_quiz(notes_text, n))
         ELSE IF quiz_data.tag = "list"
              THEN IF \E i \in 1..Len(quiz_data.v) :
                         /\ quiz_data.v[i].tag = "str"
                         /\ quiz_data.v[i].v = "questions"
                   THEN Raise("TypeError")
                   ELSE Return(generate_fallback_quiz(notes_text, n))
         ELSE IF ~DictHas(quiz_data, "questions")
              THEN Return(generate_fallback_quiz(notes_text, n))
         ELSE LET value == DictGet(quiz_data, "questions") IN
              IF value.tag \notin {"list", "str"} THEN Raise("TypeError")
              ELSE IF value.tag = "str"
                      \/ \E i \in 1..Len(value.v) : value.v[i].tag # "dict"
                   THEN Raise("ValidationError")
              ELSE Return(SubSeq(value.v, 1,
                                 IF n < 0 THEN Len(value.v) + n
                                 ELSE Min2(n, Len(value.v))))

\* The except Exception clause, entered if the try block raised.
QuizExcept(all_notes, n, tried) ==
    IF tried.kind = "raise"
    THEN generate_fallback_quiz(Prefix(all_notes, ErrorNotesLimit), n)
    ELSE tried.val

\* generate_quiz(request): the questions of the QuizResponse returned.
generate_quiz(all_notes, n, outcome) ==
    QuizExcept(all_notes, n,
               QuizTry(Prefix(all_notes, NotesLimit), n,
                       extract_json_from_text(
                           clean_repeated_lines(query_ollama(outcome)))))

----------------------------------------------------------------------------
(* Idle parts                                                              *)

CleanIdle == clean_in = PyNone /\ clean_out = PyNone /\ clean_again = PyNone

JsonIdle == json_in = PyNone /\ json_obj = "" /\ json_out = Return(PyNone)

AdapterIdle == result = PyNone /\ model_text = ""

QuizIdle == notes = "" /\ num_questions = 0 /\ questions = <<>>

PlanIdle == tasks = <<>> /\ plan = PyNone

ChatIdle == message = "" /\ response = Return(PyNone)

----------------------------------------------------------------------------
(* Inputs of clean_repeated_lines                                          *)

MaxCleanPieces == 4

\* What a model's output is put together from: text, blanks, line ends,
\* whole prompt markers, parts of markers, and a line of exactly
\* ShortLineLimit characters.
CleanPieces ==
    {"a", " ", "\n", "\r\n", "[INST]", "[/INST]", "<s>", "</s>", "[IN", "ST]",
     Rep("x", ShortLineLimit)}

\* The values clean_repeated_lines is handed: query_ollama returns a str,
\* or None when the call failed.
InitClean ==
    /\ pc = "clean"
    /\ clean_in \in {PyNone}
                    \cup {Str(t) : t \in Texts(CleanPieces, MaxCleanPieces)}
    /\ clean_out = PyNone
    /\ clean_again = PyNone
    /\ JsonIdle /\ AdapterIdle /\ QuizIdle /\ PlanIdle /\ ChatIdle

\* result = clean_repeated_lines(result)
CleanCall ==
    /\ pc = "clean"
    /\ clean_out' = clean_repeated_lines(clean_in)
    /\ pc' = "cleaned"
    /\ UNCHANGED <<clean_in, clean_again, json_in, json_obj, json_out, result,
                   model_text, notes, num_questions, questions, tasks, plan,
                   message, response>>

\* The cleaned text cleaned once more.
CleanAgain ==
    /\ pc = "cleaned"
    /\ clean_again' = clean_repeated_lines(clean_out)
    /\ pc' = "recleaned"
    /\ UNCHANGED <<clean_in, clean_out, json_in, json_obj, json_out, result,
                   model_text, notes, num_questions, questions, tasks, plan,
                   message, response>>

NextClean == CleanCall \/ CleanAgain

SpecClean == InitClean /\ [][NextClean]_vars

----------------------------------------------------------------------------
(* Inputs of extract_json_from_text                                        *)

MaxJsonPieces == 4

\* What a model's answer to a "Generate ONLY JSON" prompt is put together
\* from: prose, punctuation of JSON, whole values.
JsonPieces ==
    {"not json at all", " ", "{", "}", "[1, 2]", "42", "\"questions\"", ": ",
     "{\"a\": 1}", "\n"}

MaxMembers == 2

\* Members of an object: the keys the prompts ask for, flat and nested.
Members ==
    {"\"questions\": [1, 2]",
     "\"questions\": [{\"id\": 1, \"options\": [\"a\", \"b\"]}]",
     "\"recommendations\": [\"tip 1\", \"tip 2\"]",
     "\"schedule\": {\"monday\": [\"activity 1\", \"activity 2\"]}",
     "\"a\": 1"}

RECURSIVE MemberLists(_)
\* The lists of 1 to n members, joined as in an object.
MemberLists(n) ==
    IF n = 1 THEN Members
    ELSE LET L == MemberLists(n - 1) IN
         L \cup {l \o ", " \o m : l \in L, m \in Members}

\* A well-formed JSON object, some with objects nested in them, between
\* brace-free prose a model puts before and after it: <<the text, the
\* object>>.
EmbeddedInputs ==
    {<<pre \o "{" \o l \o "}" \o post, "{" \o l \o "}">> :
        pre \in {"", "Sure! ", "Here is the plan:\n"},
        l \in MemberLists(MaxMembers),
        post \in {"", " thanks", "\nGood luck."}}

\* The values extract_json_from_text is handed: what clean_repeated_lines
\* returns for None, texts of pieces, and objects in prose.
InitExtract ==
    /\ pc = "extract"
    /\ \/ /\ json_in \in {clean_repeated_lines(PyNone)}
                        \cup {Str(t) : t \in Texts(JsonPieces, MaxJsonPieces)}
          /\ json_obj = ""
       \/ \E e \in EmbeddedInputs : json_in = Str(e[1]) /\ json_obj = e[2]
    /\ json_out = Return(PyNone)
    /\ CleanIdle /\ AdapterIdle /\ QuizIdle /\ PlanIdle /\ ChatIdle

\* quiz_data = extract_json_from_text(result)
ExtractCall ==
    /\ pc = "extract"
    /\ json_out' = extract_json_from_text(json_in)
    /\ pc' = "extracted"
    /\ UNCHANGED <<clean_in, clean_out, clean_again, json_in, json_obj, result,
                   model_text, notes, num_questions, questions, tasks, plan,
                   message, response>>

NextExtract == ExtractCall

SpecExtract == InitExtract /\ [][NextExtract]_vars

----------------------------------------------------------------------------
(* Inputs of extract_model_text                                            *)

MaxDictKeys == 2

AdapterKeys == {"generated_text", "text", "prediction", "error", "other"}

\* Text, blank text, an error message, and a value that is not a str.
AdapterValues ==
    {Str(" hello "), Str("  "), Str("Model loading"), PyVal("int", "503")}

RECURSIVE Dicts(_)
\* The dicts of up to n keys, as their items in order.
Dicts(n) ==
    IF n = 0 THEN {<<>>}
    ELSE LET D == Dicts(n - 1) IN
         D \cup UNION {{Append(d, <<k, v>>) :
                          k \in AdapterKeys \ {d[i][1] : i \in 1..Len(d)},
                          v \in AdapterValues} :
                      d \in {x \in D : Len(x) = n - 1}}

AdapterDicts == {PyVal("dict", d) : d \in Dicts(MaxDictKeys)}

\* The shapes an inference response comes in: a dict, a list of a dict or
\* of a str, a str, and None.
AdapterInputs ==
    AdapterDicts
        \cup {PyVal("list", <<d>>) : d \in AdapterDicts}
        \cup {PyVal("list", <<v>>) : v \in AdapterValues}
        \cup AdapterValues
        \cup {PyVal("list", <<>>), PyNone}

InitAdapter ==
    /\ pc = "adapt"
    /\ result \in AdapterInputs
    /\ model_text = ""
    /\ CleanIdle /\ JsonIdle /\ QuizIdle /\ PlanIdle /\ ChatIdle

\* text = extract_model_text(result)
AdapterCall ==
    /\ pc = "adapt"
    /\ model_text' = extract_model_text(result)
    /\ pc' = "adapted"
    /\ UNCHANGED <<clean_in, clean_out, clean_again, json_in, json_obj,
                   json_out, result, notes, num_questions, questions, tasks,
                   plan,
                   message, response>>

NextAdapter == AdapterCall

SpecAdapter == InitAdapter /\ [][NextAdapter]_vars

----------------------------------------------------------------------------
(* Inputs of generate_fallback_quiz                                        *)

MaxNotePieces == 3

MaxQuestions == 3

\* Phrases the notes are put together from: long and short ones, one with
\* no word of more than four letters, terms in either letter case, and two
\* terms that differ only in how their first letter is written.
NotePieces ==
    {"Mitochondria produce energy",
     "the cell stores energy inside mitochondria",
     "we do it as he did it to us",
     "ßorte and ssorte in the index",
     "Short one", ". ", " "}

InitQuiz ==
    /\ pc = "quiz"
    /\ notes \in Texts(NotePieces, MaxNotePieces)
    /\ num_questions \in -1..MaxQuestions
    /\ questions = <<>>
    /\ CleanIdle /\ JsonIdle /\ AdapterIdle /\ PlanIdle /\ ChatIdle

\* questions = generate_fallback_quiz(notes_text, request.num_questions)
QuizCall ==
    /\ pc = "quiz"
    /\ questions' = generate_fallback_quiz(notes, num_questions)
    /\ pc' = "quizzed"
    /\ UNCHANGED <<clean_in, clean_out, clean_again, json_in, json_obj,
                   json_out, result, model_text, notes, num_questions, tasks,
                   plan,
                   message, response>>

NextQuiz == QuizCall

SpecQuiz == InitQuiz /\ [][NextQuiz]_vars

----------------------------------------------------------------------------
(* Inputs of generate_fallback_plan                                        *)

MaxTasks == 10

MaxShortTasks == 2

\* A task says its progress, its priority and its title, or lacks the key
\* (<<>>).
TaskKinds ==
    {p @@ q @@ r :
        p \in {<<>>, "progress" :> 79, "progress" :> 80},
        q \in {<<>>, "priority" :> "High", "priority" :> "Low"},
        r \in {<<>>, "title" :> "Algebra", "title" :> "Biology"}}

RECURSIVE TaskListsUpTo(_)
\* Every list of up to n tasks.
TaskListsUpTo(n) ==
    IF n = 0 THEN {<<>>}
    ELSE LET L == TaskListsUpTo(n - 1) IN
         L \cup {Append(l, t) : l \in L, t \in TaskKinds}

\* Task i of a list whose first done tasks are complete, whose tasks from
\* first_high on are of high priority, titled or not.
TaskAt(i, done, first_high, titled) ==
    (IF i <= done THEN "progress" :> 100 ELSE "progress" :> 40)
        @@ (IF first_high # 0 /\ i >= first_high THEN "priority" :> "High"
            ELSE "priority" :> "Medium")
        @@ (IF titled THEN "title" :> (IF i % 2 = 0 THEN "Algebra" ELSE "Biology")
            ELSE <<>>)

\* Every list of up to MaxShortTasks tasks, and lists of up to MaxTasks
\* tasks with every number of complete ones.
TaskLists ==
    TaskListsUpTo(MaxShortTasks)
        \cup {[i \in 1..n |-> TaskAt(i, done_high[1], done_high[2], titled)] :
                 n \in 0..MaxTasks,
                 done_high \in (0..MaxTasks) \X (0..MaxTasks),
                 titled \in BOOLEAN}

\* request.user_progress
UserProgress == {<<>>, "accuracy" :> 85}

InitPlan ==
    /\ pc = "plan"
    /\ tasks \in TaskLists
    /\ plan = PyNone
    /\ CleanIdle /\ JsonIdle /\ AdapterIdle /\ QuizIdle /\ ChatIdle

\* return generate_fallback_plan(request.tasks, request.user_progress)
PlanCall ==
    /\ pc = "plan"
    /\ \E progress \in UserProgress :
           plan' = generate_fallback_plan(tasks, progress)
    /\ pc' = "planned"
    /\ UNCHANGED <<clean_in, clean_out, clean_again, json_in, json_obj,
                   json_out, result, model_text, notes, num_questions,
                   questions, tasks,
                   message, response>>

NextPlan == PlanCall

SpecPlan == InitPlan /\ [][NextPlan]_vars

----------------------------------------------------------------------------
(* Inputs of chat_with_tutor                                               *)

MaxMessagePieces == 2

\* What the call of the model comes to: a text, empty, blank, of markers
\* only, with repeated lines, or an exception.
OllamaOutcomes ==
    {Return(Str(t)) :
        t \in {"", "  ", "An answer.", " Use a timeline.\n", "[INST]", "<s> </s>",
               "Step 1\nStep 1\nStep 2", "[INST] What is a cell? [/INST]"}}
        \cup {Raise("ConnectionError"), Raise("KeyError")}

\* Messages of words the keyword lists hold, in either letter case and
\* inside other words, and of words they do not hold.
InitChat ==
    /\ pc = "chat"
    /\ message \in Texts({"math", "War", "EXAM", "biology", "studying",
                          "update", "hello", " ", "?"}, MaxMessagePieces)
    /\ response = Return(PyNone)
    /\ CleanIdle /\ JsonIdle /\ AdapterIdle /\ QuizIdle /\ PlanIdle

\* POST /api/chat
ChatCall ==
    /\ pc = "chat"
    /\ \E outcome \in OllamaOutcomes :
          /\ clean_in' = query_ollama(outcome)
          /\ clean_out' = clean_repeated_lines(query_ollama(outcome))
          /\ response' = chat_with_tutor(message, outcome)
    /\ pc' = "chatted"
    /\ UNCHANGED <<clean_again, json_in, json_obj, json_out, result,
                   model_text, notes, num_questions, questions, tasks, plan,
                   message>>

SpecChat == InitChat /\ [][ChatCall]_vars

----------------------------------------------------------------------------
(* Inputs of generate_quiz                                                 *)

\* Notes shorter than either limit, and notes that a limit of 500 and a
\* limit of 1500 characters cut differently.
InitGenerate ==
    /\ pc = "generate"
    /\ notes \in {"", "Mitochondria produce energy",
                  "the cell stores energy inside mitochondria. we do it as he did it to us",
                  Rep("x", ErrorNotesLimit - 10)
                      \o ". the cell stores energy inside mitochondria. ",
                  Rep("x", NotesLimit - 10)
                      \o ". the cell stores energy inside mitochondria. "}
    /\ num_questions \in -1..MaxQuestions
    /\ questions = <<>>
    /\ CleanIdle /\ JsonIdle /\ AdapterIdle /\ PlanIdle /\ ChatIdle

\* POST /api/generate-quiz; the model answers with JSON that has the
\* questions, with JSON that has none, with other text, or not at all.
GenerateCall ==
    /\ pc = "generate"
    /\ \E outcome \in
            OllamaOutcomes \cup
            {Return(Str(t)) :
                t \in {"{\"questions\": [{\"id\": 1, \"question\": \"Q1\"}, {\"id\": 2, \"question\": \"Q2\"}]}",
                       "Here is the quiz: {\"questions\": [{\"id\": 1}]}",
                       "{\"questions\": [1, 2]}", "{\"questions\": \"none\"}",
                       "{\"questions\": 5}", "{\"answers\": []}", "{}",
                       "[\"questions\"]", "[1, 2]", "\"no questions\"",
                       "42", "0", "true", "null"}} :
          /\ clean_in' = query_ollama(outcome)
          /\ clean_out' = clean_repeated_lines(query_ollama(outcome))
          /\ json_in' = clean_repeated_lines(query_ollama(outcome))
          /\ json_out' = extract_json_from_text(
                             clean_repeated_lines(query_ollama(outcome)))
          /\ questions' = generate_quiz(notes, num_questions, outcome)
    /\ pc' = "generated"
    /\ UNCHANGED <<clean_again, json_obj, result, model_text, notes,
                   num_questions, tasks, plan, message, response>>

SpecGenerate == InitGenerate /\ [][GenerateCall]_vars

----------------------------------------------------------------------------
(* Properties                                                              *)

\* C1: cleaning is idempotent: cleaning a text that clean_repeated_lines
\* has returned gives that text again, for every input, among them inputs
\* with prompt markers, with leading whitespace and with lines of 120
\* characters or more.
C1_CleanIdempotent == pc = "recleaned" => clean_again = clean_out

\* C2: the text clean_repeated_lines returns contains none of the prompt
\* markers [INST], [/INST], <s>, </s>.
C2_NoMarkerInOutput ==
    (pc \in {"cleaned", "recleaned"} /\ clean_out.tag = "str")
        => \A k \in 1..Len(Markers) : ~Contains(clean_out.v, Markers[k])

\* C6: clean_repeated_lines returns the empty string for the empty string
\* and for None.
C6_EmptyOrNoneGivesEmpty ==
    (pc \in {"cleaned", "recleaned"} /\ Falsy(clean_in)) => clean_out = Str("")

\* C3: extract_json_from_text is total: for every input, the value the
\* cleaner gives for an absent model output among them, it raises nothing
\* and returns None or a dict.
C3_ExtractTotal ==
    pc = "extracted"
        => json_out.kind = "return" /\ json_out.val.tag \in {"None", "dict"}

\* C4: for a text that holds exactly one well-formed JSON object, nested
\* objects allowed, within prose free of braces, extract_json_from_text
\* returns the dict that object parses to.
C4_ExtractEmbeddedObject ==
    (pc = "extracted" /\ json_obj # "")
        => json_out = Return(JsonLoads(json_obj).val)

\* C5: generate_fallback_quiz(text, n) returns min(n, number of sentences
\* of trimmed length over 20) questions; each has exactly 4 options, no two
\* of them equal, its correct_answer is options[0], and its id is its
\* 1-based position.
C5_QuizValidity ==
    pc = "quizzed" =>
        /\ Len(questions)
             = Min2(num_questions,
                    Cardinality({i \in 1..Len(Split(notes, ".")) :
                                    Len(Strip(Split(notes, ".")[i])) > 20}))
        /\ \A i \in 1..Len(questions) :
              /\ Len(questions[i].options) = 4
              /\ \A j, k \in 1..Len(questions[i].options) :
                    questions[i].options[j] = questions[i].options[k] => j = k
              /\ questions[i].correct_answer = questions[i].options[1]
              /\ questions[i].id = i

\* C10: every fill-in-the-blank question, the kind emitted when a key term
\* is found in the sentence without regard to letter case, shows the blank
\* marker _____ in place of the term.
C10_BlankReplacesTerm ==
    pc = "quizzed" =>
        \A i \in 1..Len(questions) :
            StartsWithAt(questions[i].question, 1, "Complete: ")
                => Contains(questions[i].question, "_____")

\* C7: generate_fallback_plan picks the recommendations from the share of
\* tasks whose progress is at least 80 alone, a share of 0 for no tasks: the
\* low tier iff the share is under 0.3, the middle tier iff it is at least
\* 0.3 and under 0.7, the high tier iff it is at least 0.7; 3 of 10 gives the
\* middle tier, 7 of 10 the high tier, no tasks the low tier; and the list
\* has between 1 and 5 entries.
C7_TierByCompletionRate ==
    pc = "planned" =>
        LET total == Len(tasks)
            done == Cardinality({i \in 1..Len(tasks) :
                                    /\ "progress" \in DOMAIN tasks[i]
                                    /\ tasks[i]["progress"] >= 80})
            low == total = 0 \/ 10 * done < 3 * total
            high == total > 0 /\ 10 * done >= 7 * total
        IN  /\ plan.recommendations = LowRecommendations <=> low
            /\ plan.recommendations = MidRecommendations <=> ~low /\ ~high
            /\ plan.recommendations = HighRecommendations <=> high
            /\ (total = 10 /\ done = 3)
                    => plan.recommendations = MidRecommendations
            /\ (total = 10 /\ done = 7)
                    => plan.recommendations = HighRecommendations
            /\ total = 0 => plan.recommendations = LowRecommendations
            /\ Len(plan.recommendations) \in 1..5

\* C7: a plan for ten tasks of which exactly three have progress of 80 or
\* more, with the middle tier's recommendations.
C7_ThreeOfTenIsMiddle ==
    /\ pc = "planned"
    /\ Len(tasks) = 10
    /\ Cardinality({i \in 1..Len(tasks) :
                       /\ "progress" \in DOMAIN tasks[i]
                       /\ tasks[i]["progress"] >= 80}) = 3
    /\ plan.recommendations = MidRecommendations

\* C8: for every task list, the empty one too, the call of
\* generate_fallback_plan leaves the tasks as they were and returns a
\* schedule of exactly the five weekdays with two activities each, in which
\* Monday's first activity is replaced iff a task of priority 'High' exists,
\* then by "Focus on: " and the title of the first such task ('priority
\* task' if it has no title), and every other entry is the template's.
C8_ScheduleAndFrame ==
    [][pc = "plan" =>
        LET schedule == plan'.schedule
            highs == {i \in 1..Len(tasks) :
                        /\ "priority" \in DOMAIN tasks[i]
                        /\ tasks[i]["priority"] = "High"}
            first == CHOOSE i \in highs : \A j \in highs : i <= j
        IN  /\ tasks' = tasks
            /\ DOMAIN schedule
                 = {"monday", "tuesday", "wednesday", "thursday", "friday"}
            /\ \A day \in DOMAIN schedule :
                  /\ Len(schedule[day]) = 2
                  /\ \A k \in 1..2 :
                        <<day, k>> # <<"monday", 1>>
                            => schedule[day][k] = FixedSchedule[day][k]
            /\ schedule["monday"][1] # FixedSchedule["monday"][1]
                 <=> highs # {}
            /\ highs # {} =>
                  schedule["monday"][1]
                    = "Focus on: "
                        \o (IF "title" \in DOMAIN tasks[first]
                            THEN tasks[first]["title"] ELSE "priority task")
    ]_vars

\* C8: a plan for a list whose first task is not of high priority and
\* which has two high-priority tasks of different titles; Monday starts
\* with the title of the first of them.
C8_FirstOfTwoHighTasks ==
    /\ pc = "planned"
    /\ \E i, j \in 1..Len(tasks) :
          /\ 1 < i /\ i < j
          /\ \A k \in {i, j} :
                /\ {"priority", "title"} \subseteq DOMAIN tasks[k]
                /\ tasks[k]["priority"] = "High"
          /\ \A k \in 1..(i - 1) : "priority" \notin DOMAIN tasks[k]
                                      \/ tasks[k]["priority"] # "High"
          /\ tasks[i]["title"] # tasks[j]["title"]
          /\ plan.schedule["monday"][1] = "Focus on: " \o tasks[i]["title"]

\* C9 as stated: for every dict with a key error, whatever its other keys,
\* extract_model_text returns the empty string.
C9_ErrorKeyGivesEmpty ==
    (pc = "adapted" /\ result.tag = "dict" /\ DictHas(result, "error"))
        => model_text = ""

\* C9: for a dict with a key error, extract_model_text returns the empty
\* string exactly when none of the keys generated_text, text, summary_text,
\* output, content, prediction holds a non-blank string; when one does, it
\* returns the trimmed string of the first of them in that order, never the
\* error message.  It raises nothing.
C9_ErrorKeyUnlessText ==
    (pc = "adapted" /\ result.tag = "dict" /\ DictHas(result, "error")) =>
        LET hits == {j \in 1..Len(DictKeys) :
                        \E i \in 1..Len(result.v) :
                            /\ result.v[i][1] = DictKeys[j]
                            /\ result.v[i][2].tag = "str"
                            /\ Strip(result.v[i][2].v) # ""}
            best == CHOOSE j \in hits : \A k \in hits : j <= k
        IN  IF hits = {} THEN model_text = ""
            ELSE /\ model_text # ""
                 /\ \E i \in 1..Len(result.v) :
                       /\ result.v[i][1] = DictKeys[best]
                       /\ model_text = Strip(result.v[i][2].v)

\* C9: a dict with a key error and an error message, and no text under
\* another key, for which the empty string was returned.
C9_ErrorMessageNotSurfaced ==
    /\ pc = "adapted"
    /\ result.tag = "dict"
    /\ \E i \in 1..Len(result.v) :
          /\ result.v[i][1] = "error"
          /\ result.v[i][2] = Str("Model loading")
    /\ Len(result.v) = 2
    /\ model_text = ""

\* C11: chat_with_tutor returns a response and raises nothing, whatever
\* the call of the model came to: the cleaned text of the model if that is
\* not empty, and get_fallback_response(message) otherwise.
C11_ChatAlwaysResponds ==
    pc = "chatted" =>
        /\ response.kind = "return"
        /\ response.val
             = IF clean_out.tag = "str" /\ clean_out.v # "" THEN clean_out
               ELSE Str(get_fallback_response(message))

\* C11: the call of the model failed, nothing was there to clean, and the
\* reply is the one the keyword of the message selects.
C11_FallbackAfterFailedCall ==
    /\ pc = "chatted"
    /\ clean_in = PyNone
    /\ message = "EXAM?"
    /\ response = Return(Str(FallbackRules[5][2]))

\* C12: in generate_quiz, whenever the call of the model gave no text, or
\* text from which no JSON with a key questions comes, the questions are
\* generate_fallback_quiz of the first 1500 characters of the notes and of
\* num_questions, and the extraction raised nothing.
C12_SameFallbackOnEveryPath ==
    (/\ pc = "generated"
     /\ \/ clean_in = PyNone
        \/ json_out.kind = "raise"
        \/ json_out.val.tag # "dict"
        \/ ~DictHas(json_out.val, "questions"))
        => /\ json_out.kind = "return"
           /\ questions
                = generate_fallback_quiz(
                      SubSeq(notes, 1,
                             IF Len(notes) < 1500 THEN Len(notes) ELSE 1500),
                      num_questions)

====
